---- MODULE Spec2Model ----
(***************************************************************************)
(* KVStore: an append-only log (storage.py), a B+ tree index (index.py)    *)
(* and the engine that couples them (engine.py).                           *)
(*                                                                         *)
(* Strings are sequences of code points, so that Python's string order,    *)
(* the key regular expression, str.split and the line splitting of the     *)
(* text reader are computed character by character.                        *)
(***************************************************************************)
EXTENDS Integers, Sequences, FiniteSets, TLC

(* ------------------------------ bounds -------------------------------- *)
\* fan-out of the tree: BPlusTreeIndex(order) asserts order >= 4 (the engine
\* takes the default, 16; the smallest fan-out splits after four keys)
ORDER == 4
\* number of Engine.set calls in a run of Spec
MaxOps == 4
\* number of distinct keys offered to the index in SpecTree
NKeys == 6
\* number of distinct keys offered to the index in SpecDeep
NDeepKeys == 10
\* number of Engine.set calls in a run of SpecCrash
MaxCrashOps == 3
\* number of crashes and failed writes in a run of SpecCrash
MaxFaults == 1
\* number of append_set calls in a run of SpecLog
MaxAppends == 2
\* number of set calls in a run of SpecScan
MaxScanOps == 5
\* number of lines of the file in SpecReplay
MaxLines == 3

(* ---------------------------- characters ------------------------------ *)
LF == 10
CR == 13
SP == 32
\* str.isspace() / the regex class \s on str, restricted to code points < 256
Whitespace == {9, 10, 11, 12, 13, 28, 29, 30, 31, 32, 133, 160}
\* "SET"
CMD_SET == <<83, 69, 84>>
\* Python's None (no string has a negative code point)
None == <<-1>>

\* "a", "b", ... : the i-th lower-case letter as a one-character string
Letter(i) == <<96 + i>>
\* "1", "2"
Digit(i) == <<48 + i>>

(* ------------------------- Python str helpers ------------------------- *)
RECURSIVE StrLess(_, _)
\* a < b on str: lexicographic by code point
StrLess(a, b) ==
    IF a = <<>> THEN b # <<>>
    ELSE IF b = <<>> THEN FALSE
    ELSE IF a[1] = b[1] THEN StrLess(Tail(a), Tail(b))
    ELSE a[1] < b[1]

StrLeq(a, b) == a = b \/ StrLess(a, b)

\* list.insert(i, x) with a 0-based position i
SeqInsert(s, i, x) == SubSeq(s, 1, i) \o <<x>> \o SubSeq(s, i + 1, Len(s))

\* s[i:] with a 0-based position i
Drop(s, i) == SubSeq(s, i + 1, Len(s))

\* s[:i]
Take(s, i) == SubSeq(s, 1, i)

RECURSIVE bisect_lo(_, _, _, _)
bisect_lo(a, x, lo, hi) ==
    IF lo < hi
    THEN LET mid == (lo + hi) \div 2
         IN IF StrLess(a[mid + 1], x) THEN bisect_lo(a, x, mid + 1, hi)
                                      ELSE bisect_lo(a, x, lo, mid)
    ELSE lo

\* bisect.bisect_right in the place of bisect_left: the insertion point
\* after the elements equal to x
bisect_left_as_right(a, x) == Cardinality({i \in 1..Len(a) : StrLeq(a[i], x)})

\* bisect.bisect_left(a, x): 0-based insertion point, by binary search
bisect_left(a, x) == bisect_lo(a, x, 0, Len(a))

(* ------------------------------ B+ tree ------------------------------- *)
\* A node of the arena. parent = 0 and next = 0 stand for None.
NewLeaf == [leaf |-> TRUE, keys |-> <<>>, values |-> <<>>, next |-> 0,
            children |-> <<>>, parent |-> 0]

NewInternal == [leaf |-> FALSE, keys |-> <<>>, values |-> <<>>, next |-> 0,
                children |-> <<>>, parent |-> 0]

\* a capacity of one key more than the fan-out allows
MAX_KEYS_one_more(T) == T.order

\* self.MAX_KEYS = self.ORDER - 1
MAX_KEYS(T) == T.order - 1

\* BPlusTreeIndex(order): nodes are addressed by their position in the arena;
\* raised records a RuntimeError that left the tree part-way through a set
NewTree(order) == [nodes |-> <<NewLeaf>>, root |-> 1, size |-> 0, raised |-> FALSE,
                   order |-> order]

\* BPlusTreeIndex() as the engine builds it
EmptyTree == NewTree(ORDER)

RECURSIVE descend(_, _, _)
descend(T, n, key) ==
    IF T.nodes[n].leaf THEN n
    ELSE descend(T, T.nodes[n].children[bisect_left(T.nodes[n].keys, key) + 1], key)

find_leaf(T, key) == descend(T, T.root, key)

RECURSIVE leftmost(_, _)
leftmost(T, n) == IF T.nodes[n].leaf THEN n ELSE leftmost(T, T.nodes[n].children[1])

leftmost_leaf(T) == leftmost(T, T.root)

\* 0-based index of child in parent.children, -1 where the code raises
find_child_index(T, parent, child) ==
    LET ch == T.nodes[parent].children
        hits == {i \in 1..Len(ch) : ch[i] = child}
    IN IF hits = {} THEN -1
       ELSE (CHOOSE i \in hits : \A j \in hits : i <= j) - 1

\* _replace_child: 0-based index at which old sits in parent.children (the
\* caller stores the new child there), -1 where the code raises
replace_child(T, parent, old) == find_child_index(T, parent, old)

\* for ch in children: ch.parent = p
SetParents(nodes, children, p) ==
    SubSeq([i \in 1..Len(nodes) |->
               IF \E j \in 1..Len(children) : children[j] = i
               THEN [nodes[i] EXCEPT !.parent = p]
               ELSE nodes[i]],
           1, Len(nodes))

RECURSIVE split_internal(_, _)
\* a split that promotes the middle key and also keeps it in the right half
split_internal_keep_mid(T, internal) ==
    LET n == T.nodes[internal]
        mid == Len(n.keys) \div 2
        promote == n.keys[mid + 1]
        left == Len(T.nodes) + 1
        right == Len(T.nodes) + 2
        leftNode == [NewInternal EXCEPT !.keys = Take(n.keys, mid),
                                        !.children = Take(n.children, mid + 1)]
        rightNode == [NewInternal EXCEPT !.keys = Drop(n.keys, mid),
                                         !.children = Drop(n.children, mid + 1)]
        nodes1 == SetParents(SetParents(T.nodes \o <<leftNode, rightNode>>,
                                        leftNode.children, left),
                             rightNode.children, right)
        parent == n.parent
    IN IF parent = 0
       THEN LET new_root == Len(T.nodes) + 3
                rootNode == [NewInternal EXCEPT !.keys = <<promote>>,
                                                !.children = <<left, right>>]
            IN [T EXCEPT !.nodes = SetParents(nodes1 \o <<rootNode>>,
                                              <<left, right>>, new_root),
                         !.root = new_root]
       ELSE LET pos == replace_child(T, parent, internal)
            IN IF pos < 0 THEN [T EXCEPT !.nodes = nodes1, !.raised = TRUE]
               ELSE LET nodes2 ==
                          [nodes1 EXCEPT
                             ![parent].children =
                                 SeqInsert([@ EXCEPT ![pos + 1] = left], pos + 1, right),
                             ![parent].keys = SeqInsert(@, pos, promote),
                             ![left].parent = parent,
                             ![right].parent = parent]
                        T2 == [T EXCEPT !.nodes = nodes2]
                    IN IF Len(nodes2[parent].keys) > MAX_KEYS(T)
                       THEN split_internal(T2, parent)
                       ELSE T2

\* BPlusTreeIndex._split_internal(internal)
split_internal(T, internal) ==
    LET n == T.nodes[internal]
        mid == Len(n.keys) \div 2
        promote == n.keys[mid + 1]
        left == Len(T.nodes) + 1
        right == Len(T.nodes) + 2
        leftNode == [NewInternal EXCEPT !.keys = Take(n.keys, mid),
                                        !.children = Take(n.children, mid + 1)]
        rightNode == [NewInternal EXCEPT !.keys = Drop(n.keys, mid + 1),
                                         !.children = Drop(n.children, mid + 1)]
        nodes1 == SetParents(SetParents(T.nodes \o <<leftNode, rightNode>>,
                                        leftNode.children, left),
                             rightNode.children, right)
        parent == n.parent
    IN IF parent = 0
       THEN LET new_root == Len(T.nodes) + 3
                rootNode == [NewInternal EXCEPT !.keys = <<promote>>,
                                                !.children = <<left, right>>]
            IN [T EXCEPT !.nodes = SetParents(nodes1 \o <<rootNode>>,
                                              <<left, right>>, new_root),
                         !.root = new_root]
       ELSE LET pos == replace_child(T, parent, internal)
            IN IF pos < 0 THEN [T EXCEPT !.nodes = nodes1, !.raised = TRUE]
               ELSE LET nodes2 ==
                          [nodes1 EXCEPT
                             ![parent].children =
                                 SeqInsert([@ EXCEPT ![pos + 1] = left], pos + 1, right),
                             ![parent].keys = SeqInsert(@, pos, promote),
                             ![left].parent = parent,
                             ![right].parent = parent]
                        T2 == [T EXCEPT !.nodes = nodes2]
                    IN IF Len(nodes2[parent].keys) > MAX_KEYS(T)
                       THEN split_internal(T2, parent)
                       ELSE T2

\* an insertion that hangs the right child under the parent but leaves the
\* separator out
insert_into_parent_no_key(T, parent, left, key, right) ==
    LET pos == find_child_index(T, parent, left)
    IN IF pos < 0 THEN [T EXCEPT !.raised = TRUE]
       ELSE [T EXCEPT !.nodes[parent].children = SeqInsert(@, pos + 1, right),
                      !.nodes[right].parent = parent]

insert_into_parent(T, parent, left, key, right) ==
    LET pos == find_child_index(T, parent, left)
    IN IF pos < 0 THEN [T EXCEPT !.raised = TRUE]
       ELSE LET T1 == [T EXCEPT !.nodes[parent].keys = SeqInsert(@, pos, key),
                                !.nodes[parent].children = SeqInsert(@, pos + 1, right),
                                !.nodes[right].parent = parent]
            IN IF Len(T1.nodes[parent].keys) > MAX_KEYS(T)
               THEN split_internal(T1, parent)
               ELSE T1

\* mid = (len(leaf.keys) + 1) // 2
leaf_mid(n) == (n + 1) \div 2

\* a split that grows the tree in place: below a parent, the two halves are
\* hung under a new internal node that takes the place of the leaf
split_leaf_in_place(T, leaf) ==
    LET n == T.nodes[leaf]
        mid == leaf_mid(Len(n.keys))
        new_leaf == Len(T.nodes) + 1
        new_node == Len(T.nodes) + 2
        newNode == [NewLeaf EXCEPT !.keys = Drop(n.keys, mid),
                                   !.values = Drop(n.values, mid),
                                   !.next = n.next,
                                   !.parent = new_node]
        leftNode == [n EXCEPT !.keys = Take(n.keys, mid),
                              !.values = Take(n.values, mid),
                              !.next = new_leaf,
                              !.parent = new_node]
        inner == [NewInternal EXCEPT !.keys = <<newNode.keys[1]>>,
                                     !.children = <<leaf, new_leaf>>,
                                     !.parent = n.parent]
        nodes1 == [T.nodes EXCEPT ![leaf] = leftNode] \o <<newNode, inner>>
    IN IF n.parent = 0
       THEN [T EXCEPT !.nodes = nodes1, !.root = new_node]
       ELSE [T EXCEPT !.nodes =
                [nodes1 EXCEPT ![n.parent].children =
                    SubSeq([i \in 1..Len(@) |-> IF @[i] = leaf THEN new_node ELSE @[i]],
                           1, Len(@))]]

split_leaf(T, leaf) ==
    LET n == T.nodes[leaf]
        mid == leaf_mid(Len(n.keys))
        new_leaf == Len(T.nodes) + 1
        newNode == [NewLeaf EXCEPT !.keys = Drop(n.keys, mid),
                                   !.values = Drop(n.values, mid),
                                   !.next = n.next]
        leftNode == [n EXCEPT !.keys = Take(n.keys, mid),
                              !.values = Take(n.values, mid),
                              !.next = new_leaf]
        sep_key == newNode.keys[1]
        T1 == [T EXCEPT !.nodes = Append([@ EXCEPT ![leaf] = leftNode], newNode)]
    IN IF n.parent = 0
       THEN LET new_root == Len(T.nodes) + 2
                rootNode == [NewInternal EXCEPT !.keys = <<sep_key>>,
                                                !.children = <<leaf, new_leaf>>]
            IN [T1 EXCEPT !.nodes = SetParents(T1.nodes \o <<rootNode>>,
                                               <<leaf, new_leaf>>, new_root),
                          !.root = new_root]
       ELSE insert_into_parent(T1, n.parent, leaf, sep_key, new_leaf)

\* a set that splits a leaf as soon as it is full, one key early
tree_set_split_when_full(T, key, value) ==
    LET leaf == find_leaf(T, key)
        n == T.nodes[leaf]
        i == bisect_left(n.keys, key)
    IN IF i < Len(n.keys) /\ n.keys[i + 1] = key
       THEN [T EXCEPT !.nodes[leaf].values[i + 1] = value]
       ELSE LET T1 == [T EXCEPT !.nodes[leaf].keys = SeqInsert(@, i, key),
                                !.nodes[leaf].values = SeqInsert(@, i, value),
                                !.size = @ + 1]
            IN IF Len(T1.nodes[leaf].keys) >= MAX_KEYS(T)
               THEN split_leaf(T1, leaf)
               ELSE T1

\* BPlusTreeIndex.set(key, value)
tree_set(T, key, value) ==
    LET leaf == find_leaf(T, key)
        n == T.nodes[leaf]
        i == bisect_left(n.keys, key)
    IN IF i < Len(n.keys) /\ n.keys[i + 1] = key
       THEN [T EXCEPT !.nodes[leaf].values[i + 1] = value]
       ELSE LET T1 == [T EXCEPT !.nodes[leaf].keys = SeqInsert(@, i, key),
                                !.nodes[leaf].values = SeqInsert(@, i, value),
                                !.size = @ + 1]
            IN IF Len(T1.nodes[leaf].keys) > MAX_KEYS(T)
               THEN split_leaf(T1, leaf)
               ELSE T1

\* BPlusTreeIndex.get(key)
tree_get(T, key) ==
    LET n == T.nodes[find_leaf(T, key)]
        i == bisect_left(n.keys, key)
    IN IF i < Len(n.keys) /\ n.keys[i + 1] = key THEN n.values[i + 1] ELSE None

\* BPlusTreeIndex.clear()
tree_clear(T) == NewTree(T.order)

\* len(index)
tree_len(T) == T.size

RECURSIVE chain(_, _, _)
\* the (key, value) pairs of the leaves from n on, following .next; fuel
\* bounds the walk by the number of nodes of the arena
chain(T, n, fuel) ==
    IF n = 0 \/ fuel = 0 THEN <<>>
    ELSE [i \in 1..Len(T.nodes[n].keys) |-> <<T.nodes[n].keys[i], T.nodes[n].values[i]>>]
         \o chain(T, T.nodes[n].next, fuel - 1)

\* BPlusTreeIndex.items()
tree_items(T) == chain(T, leftmost_leaf(T), Len(T.nodes))

RECURSIVE range_scan(_, _, _, _, _)
\* the loop of iter_range from position idx (0-based) of leaf n on; fuel
\* bounds the walk along .next by the number of nodes of the arena
range_scan(T, n, idx, end, fuel) ==
    IF n = 0 \/ fuel = 0 THEN <<>>
    ELSE IF idx < Len(T.nodes[n].keys)
    THEN LET k == T.nodes[n].keys[idx + 1]
         IN IF end # None /\ ~StrLess(k, end) THEN <<>>
            ELSE <<(<<k, T.nodes[n].values[idx + 1]>>)>>
                 \o range_scan(T, n, idx + 1, end, fuel)
    ELSE range_scan(T, T.nodes[n].next, 0, end, fuel - 1)

\* list(BPlusTreeIndex.iter_range(start, end)); end = None where it is unset
iter_range(T, start, end) ==
    LET leaf == find_leaf(T, start)
    IN range_scan(T, leaf, bisect_left(T.nodes[leaf].keys, start), end, Len(T.nodes))

\* the code point of the sentinel "\uffff"
SENTINEL == 65535

\* _prefix_hi(prefix) = prefix + "\uffff"
prefix_hi(prefix) == prefix \o <<SENTINEL>>

\* list(BPlusTreeIndex.iter_prefix(prefix))
iter_prefix(T, prefix) ==
    IF prefix = <<>> THEN tree_items(T)
    ELSE iter_range(T, prefix, prefix_hi(prefix))

(* ------------------------------ the log ------------------------------- *)
AllNonSpace(s) == \A i \in 1..Len(s) : s[i] \notin Whitespace

\* _KEY_RE.match(key) for r"^\S+$": "$" also matches just before a line
\* feed that ends the string
key_re_match(key) ==
    \/ Len(key) >= 1 /\ AllNonSpace(key)
    \/ Len(key) >= 2 /\ key[Len(key)] = LF /\ AllNonSpace(Take(key, Len(key) - 1))

Contains(s, c) == \E i \in 1..Len(s) : s[i] = c

\* _validate_key_value_or_raise with max_key_len = max_value_len = None:
\* TRUE where it returns, FALSE where it raises ValueError
validate_key_value(key, value) == key_re_match(key) /\ ~Contains(value, LF)

\* f"SET {key} {value}\n"
record_line(key, value) == CMD_SET \o <<SP>> \o key \o <<SP>> \o value \o <<LF>>

\* 1-based position of the first c in s from position from on, 0 if none
IndexOf(s, c, from) ==
    LET hits == {i \in from..Len(s) : s[i] = c}
    IN IF hits = {} THEN 0 ELSE CHOOSE i \in hits : \A j \in hits : i <= j

\* line.split(" ", 2)
split2(line) ==
    LET p1 == IndexOf(line, SP, 1)
    IN IF p1 = 0 THEN <<line>>
       ELSE LET p2 == IndexOf(line, SP, p1 + 1)
            IN IF p2 = 0 THEN <<Take(line, p1 - 1), Drop(line, p1)>>
               ELSE <<Take(line, p1 - 1), SubSeq(line, p1 + 1, p2 - 1), Drop(line, p2)>>

\* _parse_and_validate(line) with max_key_len = max_value_len = None
parse_and_validate(line) ==
    LET parts == split2(line)
    IN IF Len(parts) # 3 THEN [ok |-> FALSE, key |-> <<>>, value |-> <<>>]
       ELSE IF parts[1] # CMD_SET THEN [ok |-> FALSE, key |-> <<>>, value |-> <<>>]
       ELSE IF ~key_re_match(parts[2]) THEN [ok |-> FALSE, key |-> <<>>, value |-> <<>>]
       ELSE [ok |-> TRUE, key |-> parts[2], value |-> parts[3]]

RECURSIVE rstrip_lf(_)
\* raw.rstrip("\n")
rstrip_lf(s) ==
    IF s # <<>> /\ s[Len(s)] = LF THEN rstrip_lf(Take(s, Len(s) - 1)) ELSE s

\* length of the first line of s as the text reader opened with newline=""
\* cuts it: a line ends after "\n", "\r" or "\r\n", terminator kept
first_line_len(s) ==
    LET ends == {i \in 1..Len(s) : s[i] = LF \/ s[i] = CR}
    IN IF ends = {} THEN Len(s)
       ELSE LET e == CHOOSE i \in ends : \A j \in ends : i <= j
            IN IF s[e] = CR /\ e < Len(s) /\ s[e + 1] = LF THEN e + 1 ELSE e

RECURSIVE read_lines(_)
\* the lines "for raw in fh" produces
read_lines(s) ==
    IF s = <<>> THEN <<>>
    ELSE <<Take(s, first_line_len(s))>> \o read_lines(Drop(s, first_line_len(s)))

\* the tail check of replay: TRUE where the warning about an unterminated
\* trailing line is logged (it changes nothing else)
tail_warning(file) == Len(file) > 0 /\ file[Len(file)] # LF

RECURSIVE replay_lines(_)
\* the loop of replay (strict = False): the records yielded for the lines
replay_lines(lines) ==
    IF lines = <<>> THEN <<>>
    ELSE LET line == rstrip_lf(Head(lines))
             rec == parse_and_validate(line)
         IN IF line = <<>> THEN replay_lines(Tail(lines))
            ELSE IF ~rec.ok THEN replay_lines(Tail(lines))
            ELSE <<(<<rec.key, rec.value>>)>> \o replay_lines(Tail(lines))

\* a replay that gives up at the first line it cannot parse
replay_stop_at_bad(ex, content) ==
    LET lines == read_lines(content)
        bad == {i \in 1..Len(lines) :
                   /\ rstrip_lf(lines[i]) # <<>>
                   /\ ~parse_and_validate(rstrip_lf(lines[i])).ok}
        n == IF bad = {} THEN Len(lines)
             ELSE (CHOOSE i \in bad : \A j \in bad : i <= j) - 1
    IN IF ~ex THEN <<>> ELSE replay_lines(SubSeq(lines, 1, n))

\* AppendOnlyLog.replay() when reading the (n + 1)-th line raises OSError or
\* UnicodeError: the records of the first n lines were yielded, the error
\* is logged and the generator returns
replay_read_error(ex, content, n) ==
    IF ~ex THEN <<>> ELSE replay_lines(Take(read_lines(content), n))

\* AppendOnlyLog.replay(): the sequence of (key, value) it yields
replay(ex, content) == IF ~ex THEN <<>> ELSE replay_lines(read_lines(content))

\* AppendOnlyLog.append_set(key, value) when the write and the fsync succeed
append_set(ex, content, key, value) ==
    IF ~validate_key_value(key, value)
    THEN [status |-> "ValueError", exists |-> ex, file |-> content]
    ELSE [status |-> "ok", exists |-> TRUE, file |-> content \o record_line(key, value)]

\* compact: fh.write(f"SET {k} {v}\n") on the temporary file t
compact_write(t, k, v) == [t EXCEPT !.content = @ \o record_line(k, v)]

\* a compaction that closes the temporary file without the fsync
compact_fsync_skipped(t) == t

\* compact: fh.flush(); os.fsync(fh.fileno()) on the temporary file t
compact_fsync(t) == [t EXCEPT !.synced = Len(t.content)]

RECURSIVE compact_loop(_, _)
\* the loop of compact on the temporary file t: ok is FALSE where an item
\* fails validation and ValueError leaves the loop
compact_loop(t, items) ==
    IF items = <<>> THEN [ok |-> TRUE, t |-> t]
    ELSE IF ~validate_key_value(Head(items)[1], Head(items)[2])
    THEN [ok |-> FALSE, t |-> t]
    ELSE compact_loop(compact_write(t, Head(items)[1], Head(items)[2]), Tail(items))

\* AppendOnlyLog.compact(items) when no I/O fails: the live file after it
compact(ex, content, items) ==
    LET r == compact_loop([exists |-> TRUE, content |-> <<>>, synced |-> 0], items)
    IN IF ~r.ok
       THEN [status |-> "ValueError", exists |-> ex, file |-> content]
       ELSE [status |-> "ok", exists |-> TRUE, file |-> compact_fsync(r.t).content]

(* ----------------------------- the engine ----------------------------- *)
RECURSIVE apply_all(_, _)
\* for key, value in records: index.set(key, value); an exception raised by
\* index.set ends the loop
apply_all(T, records) ==
    IF records = <<>> THEN T
    ELSE LET T1 == tree_set(T, Head(records)[1], Head(records)[2])
         IN IF T1.raised THEN T1 ELSE apply_all(T1, Tail(records))

\* KVEngine.__init__ / _load_from_log: the index of a new engine on the file
load_from_log(ex, content) == apply_all(EmptyTree, replay(ex, content))

\* an engine that applies the write to the index whatever the append did
engine_set_index_eager(T, status, key, value) == tree_set(T, key, value)

\* KVEngine.set: the index after the call, given the outcome of the append
engine_set_index(T, status, key, value) ==
    IF status = "ok" THEN tree_set(T, key, value) ELSE T

\* KVEngine.get
engine_get(T, key) == tree_get(T, key)

\* a get that reads through to the log: it rebuilds the index from the file
\* and answers from that
engine_get_call_reload(T, ex, content, key) ==
    [ret |-> tree_get(load_from_log(ex, content), key),
     index |-> load_from_log(ex, content), exists |-> ex, file |-> content]

\* KVEngine.get as a call: what it returns, and the index and the log file
\* it leaves behind (it assigns nothing and opens no file)
engine_get_call(T, ex, content, key) ==
    [ret |-> engine_get(T, key), index |-> T, exists |-> ex, file |-> content]

(* ------------------------------- inputs ------------------------------- *)
\* keys and values offered to Engine.set in Spec: "a".."d" and the empty
\* key; "1", "\r1" and "\n"
EngineKeys == {Letter(i) : i \in 1..4} \cup {<<>>}

EngineValues == {Digit(1), <<CR>> \o Digit(1), <<LF>>}

\* keys and values offered to the index in SpecTree and SpecDeep
TreeKeys == {Letter(i) : i \in 1..NKeys}

TreeValues == {Digit(1), Digit(2)}

DeepKeys == {Letter(i) : i \in 1..NDeepKeys}

\* fan-outs offered to BPlusTreeIndex(order) in SpecOrders: an even one and an
\* odd one
Orders == ORDER..(ORDER + 1)

\* keys and values offered to Engine.set in SpecCrash: "a", "b" and the
\* empty key; "1", "2"
CrashKeys == {Letter(1), Letter(2), <<>>}

CrashValues == {Digit(1), Digit(2)}

\* keys offered to append_set in SpecLog: "a", "b", "", " ", "a b", "a\n",
\* "\na", "a\r"
LogKeys == {Letter(1), Letter(2), <<>>, <<SP>>, Letter(1) \o <<SP>> \o Letter(2),
            Letter(1) \o <<LF>>, <<LF>> \o Letter(1), Letter(1) \o <<CR>>}

\* values offered to append_set in SpecLog: "1", "", " 1 ", "1 2", "\r1",
\* "1\n", "\n"
LogValues == {Digit(1), <<>>, <<SP>> \o Digit(1) \o <<SP>>,
              Digit(1) \o <<SP>> \o Digit(2), <<CR>> \o Digit(1),
              Digit(1) \o <<LF>>, <<LF>>}

\* keys offered to the index in SpecScan: "a", "ab", "b", "bc", and two keys
\* that extend "a" by a code point at and above the sentinel of _prefix_hi,
\* "a\uffff" and "a\U00010000"
ScanKeys == {Letter(1), Letter(1) \o Letter(2), Letter(2), Letter(2) \o Letter(3),
             Letter(1) \o <<SENTINEL>>, Letter(1) \o <<SENTINEL + 1>>}

\* bounds offered to iter_range in SpecScan ("c" is below no stored key but
\* the two longest), and prefixes offered to iter_prefix
ScanBounds == {Letter(1), Letter(1) \o Letter(2), Letter(2), Letter(3)}

ScanPrefixes == {<<>>, Letter(1), Letter(2), Letter(1) \o Letter(2)}

\* keys and values of the well-formed lines of SpecReplay: "a", "b"; "1",
\* "1 2", " 1"
ReplayKeys == {Letter(1), Letter(2)}

ReplayValues == {Digit(1), Digit(1) \o <<SP>> \o Digit(2), <<SP>> \o Digit(1)}

\* lines of SpecReplay that are not records: "SET a" and "SETa1" (fewer
\* than three tokens), "GET a 1" and "set a 1" (another command), "SET  1"
\* (empty key), "SET a\tb 1" (a tab in the key) and the empty line
MalformedLines ==
    {CMD_SET \o <<SP>> \o Letter(1) \o <<LF>>,
     CMD_SET \o Letter(1) \o Digit(1) \o <<LF>>,
     <<71, 69, 84, SP>> \o Letter(1) \o <<SP>> \o Digit(1) \o <<LF>>,
     <<115, 101, 116, SP>> \o Letter(1) \o <<SP>> \o Digit(1) \o <<LF>>,
     CMD_SET \o <<SP, SP>> \o Digit(1) \o <<LF>>,
     CMD_SET \o <<SP>> \o Letter(1) \o <<9>> \o Letter(2) \o <<SP>> \o Digit(1) \o <<LF>>,
     <<LF>>}

\* snapshots offered to compact in SpecCompact: none, (a,1), (b,2) then
\* (a,1), and (a,1) followed by a pair with the empty key
CompactSnapshots ==
    {<<>>,
     <<(<<Letter(1), Digit(1)>>)>>,
     <<(<<Letter(2), Digit(2)>>), (<<Letter(1), Digit(1)>>)>>,
     <<(<<Letter(1), Digit(1)>>), (<<(<<>>), Digit(1)>>)>>}

\* unterminated last lines of SpecRecover: what a crash in the middle of
\* the write of "SET a 1\n" can leave, "SE", "SET a ", "SET a 1"
TornTails ==
    {Take(record_line(Letter(1), Digit(1)), 2),
     Take(record_line(Letter(1), Digit(1)), 6),
     Take(record_line(Letter(1), Digit(1)), 7)}

\* every key some specification offers
KeyUniverse ==
    EngineKeys \cup TreeKeys \cup DeepKeys \cup CrashKeys \cup LogKeys \cup ScanKeys

(* ------------------------------- state -------------------------------- *)
VARIABLES
    exists,   \* os.path.exists(path) for the log file
    file,     \* content of the log file, as a reader would see it
    synced,   \* length of the prefix of file that is on stable storage
    index,    \* KVEngine._index, the B+ tree
    pc,       \* where the engine is: "ready", inside set ("append",
              \* "written", "logged"), or "down" after a crash
    cur,      \* the call in progress or the arguments of the last scan, else
              \* <<>>; in SpecReplay the records of the lines written so far
    result,   \* outcome of the last completed call
    model,    \* history: key -> value of the last set that returned, or None
    maybe,    \* history: key -> values of sets in flight at a crash since then
    nops,     \* number of set / append calls made
    faults,   \* number of crashes and failed writes so far
    tmp       \* the temporary file of compact: exists, content, synced

vars == <<exists, file, synced, index, pc, cur, result, model, maybe, nops, faults, tmp>>

\* a path that holds no file
NoFile == [exists |-> FALSE, content |-> <<>>, synced |-> 0]

Result(op, status, ret) == [op |-> op, status |-> status, ret |-> ret]

\* the state after KVEngine(db_path) on a path that holds no file
Init ==
    /\ exists = FALSE
    /\ file = <<>>
    /\ synced = 0
    /\ index = load_from_log(FALSE, <<>>)
    /\ pc = "ready"
    /\ cur = <<>>
    /\ result = Result("init", "ok", None)
    /\ model = [k \in KeyUniverse |-> None]
    /\ maybe = [k \in KeyUniverse |-> {}]
    /\ nops = 0
    /\ faults = 0
    /\ tmp = NoFile

(* ------------------- Spec: the engine, call by call ------------------- *)
\* KVEngine.set(key, value), the append succeeding or raising ValueError
EngineSet(k, v) ==
    LET a == append_set(exists, file, k, v)
    IN /\ pc = "ready"
       /\ nops < MaxOps
       /\ nops' = nops + 1
       /\ exists' = a.exists
       /\ file' = a.file
       /\ synced' = Len(a.file)
       /\ index' = engine_set_index(index, a.status, k, v)
       /\ result' = Result("set", IF a.status = "ok" /\ index'.raised
                                  THEN "RuntimeError" ELSE a.status, None)
       /\ model' = IF a.status = "ok" /\ ~index'.raised
                   THEN [model EXCEPT ![k] = v] ELSE model
       /\ UNCHANGED <<pc, cur, maybe, faults, tmp>>

\* KVEngine.set(key, value) when open() raises OSError: nothing is written
EngineSetOSError(k, v) ==
    /\ pc = "ready"
    /\ nops < MaxOps
    /\ validate_key_value(k, v)
    /\ nops' = nops + 1
    /\ index' = engine_set_index(index, "OSError", k, v)
    /\ result' = Result("set", "OSError", None)
    /\ UNCHANGED <<exists, file, synced, pc, cur, model, maybe, faults, tmp>>

\* KVEngine.get(key)
EngineGet(k) ==
    LET g == engine_get_call(index, exists, file, k)
    IN /\ pc = "ready"
       /\ result' = Result("get", "ok", g.ret)
       /\ index' = g.index
       /\ exists' = g.exists
       /\ file' = g.file
       /\ UNCHANGED <<synced, pc, cur, model, maybe, nops, faults, tmp>>

\* log.compact(index.items()) on the engine's log and index
EngineCompact ==
    LET c == compact(exists, file, tree_items(index))
    IN /\ pc = "ready"
       /\ exists' = c.exists
       /\ file' = c.file
       /\ synced' = Len(c.file)
       /\ result' = Result("compact", c.status, None)
       /\ UNCHANGED <<index, pc, cur, model, maybe, nops, faults, tmp>>

Next ==
    \/ \E k \in EngineKeys, v \in EngineValues : EngineSet(k, v)
    \/ \E k \in EngineKeys, v \in EngineValues : EngineSetOSError(k, v)
    \/ \E k \in EngineKeys : EngineGet(k)
    \/ EngineCompact

Spec == Init /\ [][Next]_vars

(* --------------- SpecTree / SpecDeep: the index alone ----------------- *)
\* BPlusTreeIndex.set(key, value)
TreeSet(k, v) ==
    /\ ~index.raised
    /\ index' = tree_set(index, k, v)
    /\ result' = Result("set", IF index'.raised THEN "RuntimeError" ELSE "ok", None)
    /\ model' = [model EXCEPT ![k] = v]
    /\ UNCHANGED <<exists, file, synced, pc, cur, maybe, nops, faults, tmp>>

\* BPlusTreeIndex.get(key)
TreeGet(k) ==
    /\ result' = Result("get", "ok", tree_get(index, k))
    /\ UNCHANGED <<exists, file, synced, index, pc, cur, model, maybe, nops, faults, tmp>>

\* BPlusTreeIndex.clear()
TreeClear ==
    /\ index' = tree_clear(index)
    /\ result' = Result("clear", "ok", None)
    /\ model' = [k \in KeyUniverse |-> None]
    /\ UNCHANGED <<exists, file, synced, pc, cur, maybe, nops, faults, tmp>>

NextTree ==
    \/ \E k \in TreeKeys, v \in TreeValues : TreeSet(k, v)
    \/ \E k \in TreeKeys : TreeGet(k)
    \/ TreeClear

SpecTree == Init /\ [][NextTree]_vars

NextDeep ==
    \/ \E k \in DeepKeys : TreeSet(k, Digit(1))
    \/ TreeClear

SpecDeep == Init /\ [][NextDeep]_vars

(* ------------- SpecOrders: trees of more than one fan-out -------------- *)
\* BPlusTreeIndex(order): a fresh tree of the given fan-out
TreeNew(order) ==
    /\ order >= 4
    /\ index' = NewTree(order)
    /\ result' = Result("new", "ok", None)
    /\ model' = [k \in KeyUniverse |-> None]
    /\ UNCHANGED <<exists, file, synced, pc, cur, maybe, nops, faults, tmp>>

NextOrders ==
    \/ \E order \in Orders : TreeNew(order)
    \/ \E k \in DeepKeys : TreeSet(k, Digit(1))

SpecOrders == Init /\ [][NextOrders]_vars

(* ------------------ SpecScan: the scans of the index ------------------ *)
\* list(index.iter_range(start, end))
TreeRange(start, end) ==
    /\ result' = Result("range", "ok", iter_range(index, start, end))
    /\ cur' = <<start, end>>
    /\ UNCHANGED <<exists, file, synced, index, pc, model, maybe, nops, faults, tmp>>

\* list(index.iter_prefix(prefix))
TreePrefix(prefix) ==
    /\ result' = Result("prefix", "ok", iter_prefix(index, prefix))
    /\ cur' = <<prefix>>
    /\ UNCHANGED <<exists, file, synced, index, pc, model, maybe, nops, faults, tmp>>

\* BPlusTreeIndex.set(key, value) between scans
ScanSet(k, v) ==
    /\ nops < MaxScanOps
    /\ nops' = nops + 1
    /\ cur' = <<>>
    /\ ~index.raised
    /\ index' = tree_set(index, k, v)
    /\ result' = Result("set", IF index'.raised THEN "RuntimeError" ELSE "ok", None)
    /\ model' = [model EXCEPT ![k] = v]
    /\ UNCHANGED <<exists, file, synced, pc, maybe, faults, tmp>>

NextScan ==
    \/ \E k \in ScanKeys, v \in TreeValues : ScanSet(k, v)
    \/ \E start \in ScanBounds, end \in ScanBounds \cup {None} : TreeRange(start, end)
    \/ \E prefix \in ScanPrefixes : TreePrefix(prefix)

SpecScan == Init /\ [][NextScan]_vars

(* ------- SpecCrash: Engine.set step by step, crash and restart -------- *)
\* Engine.set is called; append_set validates before it opens the file
CSetCall(k, v) ==
    /\ pc = "ready"
    /\ nops < MaxCrashOps
    /\ nops' = nops + 1
    /\ IF validate_key_value(k, v)
       THEN /\ pc' = "append"
            /\ cur' = <<k, v>>
            /\ UNCHANGED <<index, result>>
       ELSE /\ index' = engine_set_index(index, "ValueError", k, v)
            /\ result' = Result("set", "ValueError", None)
            /\ UNCHANGED <<pc, cur>>
    /\ UNCHANGED <<exists, file, synced, model, maybe, faults, tmp>>

\* open(path, "a"); fh.write(line); fh.flush()
CWrite ==
    /\ pc = "append"
    /\ exists' = TRUE
    /\ file' = file \o record_line(cur[1], cur[2])
    /\ pc' = "written"
    /\ UNCHANGED <<synced, index, cur, result, model, maybe, nops, faults, tmp>>

\* open, write or flush raises OSError after n characters reached the file
CWriteFail ==
    /\ pc = "append"
    /\ faults < MaxFaults
    /\ faults' = faults + 1
    /\ \E n \in 0..Len(record_line(cur[1], cur[2])) :
          file' = file \o Take(record_line(cur[1], cur[2]), n)
    /\ exists' \in {exists, TRUE}
    /\ (file' # <<>> => exists')
    /\ index' = engine_set_index(index, "OSError", cur[1], cur[2])
    /\ result' = Result("set", "OSError", None)
    /\ pc' = "ready"
    /\ cur' = <<>>
    /\ UNCHANGED <<synced, model, maybe, nops, tmp>>

\* os.fsync(fh.fileno()) returns: append_set returns
CFsync ==
    /\ pc = "written"
    /\ synced' = Len(file)
    /\ pc' = "logged"
    /\ UNCHANGED <<exists, file, index, cur, result, model, maybe, nops, faults, tmp>>

\* os.fsync raises OSError
CFsyncFail ==
    /\ pc = "written"
    /\ faults < MaxFaults
    /\ faults' = faults + 1
    /\ index' = engine_set_index(index, "OSError", cur[1], cur[2])
    /\ result' = Result("set", "OSError", None)
    /\ pc' = "ready"
    /\ cur' = <<>>
    /\ UNCHANGED <<exists, file, synced, model, maybe, nops, tmp>>

\* self._index.set(key, value); Engine.set returns
CApply ==
    /\ pc = "logged"
    /\ index' = engine_set_index(index, "ok", cur[1], cur[2])
    /\ result' = Result("set", "ok", None)
    /\ model' = [model EXCEPT ![cur[1]] = cur[2]]
    /\ maybe' = [maybe EXCEPT ![cur[1]] = {}]
    /\ pc' = "ready"
    /\ cur' = <<>>
    /\ UNCHANGED <<exists, file, synced, nops, faults, tmp>>

\* the process (or the machine) dies: memory is lost, of the file the
\* fsynced prefix survives and any part of what was written after it
Crash ==
    /\ pc # "down"
    /\ faults < MaxFaults
    /\ faults' = faults + 1
    /\ \E n \in synced..Len(file) : file' = Take(file, n) /\ synced' = n
    /\ index' = EmptyTree
    /\ maybe' = IF cur = <<>> THEN maybe
                ELSE [maybe EXCEPT ![cur[1]] = @ \cup {cur[2]}]
    /\ pc' = "down"
    /\ cur' = <<>>
    /\ result' = Result("crash", "ok", None)
    /\ UNCHANGED <<exists, model, nops, tmp>>

\* KVEngine(db_path) on the file the crash left
Restart ==
    /\ pc = "down"
    /\ index' = load_from_log(exists, file)
    /\ pc' = "ready"
    /\ result' = Result("init", "ok", None)
    /\ UNCHANGED <<exists, file, synced, cur, model, maybe, nops, faults, tmp>>

NextCrash ==
    \/ \E k \in CrashKeys, v \in CrashValues : CSetCall(k, v)
    \/ CWrite
    \/ CWriteFail
    \/ CFsync
    \/ CFsyncFail
    \/ CApply
    \/ Crash
    \/ Restart

SpecCrash == Init /\ [][NextCrash]_vars

(* ---------------------- SpecLog: the log alone ------------------------ *)
\* AppendOnlyLog.append_set(key, value)
LogAppend(k, v) ==
    LET a == append_set(exists, file, k, v)
    IN /\ nops < MaxAppends
       /\ nops' = nops + 1
       /\ exists' = a.exists
       /\ file' = a.file
       /\ synced' = Len(a.file)
       /\ result' = Result("append", a.status, None)
       /\ UNCHANGED <<index, pc, cur, model, maybe, faults, tmp>>

\* list(AppendOnlyLog.replay())
LogReplay ==
    /\ result' = Result("replay", "ok", replay(exists, file))
    /\ UNCHANGED <<exists, file, synced, index, pc, cur, model, maybe, nops, faults, tmp>>

NextLog ==
    \/ \E k \in LogKeys, v \in LogValues : LogAppend(k, v)
    \/ LogReplay

SpecLog == Init /\ [][NextLog]_vars

(* ------------- SpecReplay: replay of a file of any lines -------------- *)
\* the file gains a well-formed line "SET key value\n"; cur keeps the
\* records of the well-formed lines, in file order
WriteRecordLine(k, v) ==
    /\ nops < MaxLines
    /\ ~tail_warning(file)
    /\ nops' = nops + 1
    /\ exists' = TRUE
    /\ file' = file \o record_line(k, v)
    /\ synced' = Len(file')
    /\ cur' = Append(cur, <<k, v>>)
    /\ result' = Result("write", "ok", None)
    /\ UNCHANGED <<index, pc, model, maybe, faults, tmp>>

\* the file gains a line that is no record
WriteMalformedLine(l) ==
    /\ nops < MaxLines
    /\ ~tail_warning(file)
    /\ nops' = nops + 1
    /\ exists' = TRUE
    /\ file' = file \o l
    /\ synced' = Len(file')
    /\ result' = Result("write", "malformed", None)
    /\ UNCHANGED <<index, pc, cur, model, maybe, faults, tmp>>

NextReplay ==
    \/ \E k \in ReplayKeys, v \in ReplayValues : WriteRecordLine(k, v)
    \/ \E l \in MalformedLines : WriteMalformedLine(l)
    \/ LogReplay

SpecReplay == Init /\ [][NextReplay]_vars

(* ---------- SpecCompact: compact step by step, with crashes ----------- *)
\* AppendOnlyLog.append_set(key, value) between compactions
KAppend(k, v) ==
    LET a == append_set(exists, file, k, v)
    IN /\ pc = "ready"
       /\ nops < MaxAppends
       /\ nops' = nops + 1
       /\ exists' = a.exists
       /\ file' = a.file
       /\ synced' = Len(a.file)
       /\ cur' = <<>>
       /\ result' = Result("append", a.status, None)
       /\ UNCHANGED <<index, pc, model, maybe, faults, tmp>>

\* compact(items) is called; cur keeps the items, the number of items
\* written and the live file as it is at the call
KCompactCall(items) ==
    /\ pc = "ready"
    /\ pc' = "c_open"
    /\ cur' = <<items, 0, [exists |-> exists, content |-> file]>>
    /\ UNCHANGED <<exists, file, synced, index, result, model, maybe, nops, faults, tmp>>

\* open(tmp_path, "w") creates or empties the temporary file
KOpenTmp ==
    /\ pc = "c_open"
    /\ tmp' = [exists |-> TRUE, content |-> <<>>, synced |-> 0]
    /\ pc' = "c_loop"
    /\ UNCHANGED <<exists, file, synced, index, cur, result, model, maybe, nops, faults>>

\* one turn of the loop: the item is valid and its line is written
KWriteItem ==
    /\ pc = "c_loop"
    /\ cur[2] < Len(cur[1])
    /\ validate_key_value(cur[1][cur[2] + 1][1], cur[1][cur[2] + 1][2])
    /\ tmp' = compact_write(tmp, cur[1][cur[2] + 1][1], cur[1][cur[2] + 1][2])
    /\ cur' = <<cur[1], cur[2] + 1, cur[3]>>
    /\ UNCHANGED <<exists, file, synced, index, pc, result, model, maybe, nops, faults>>

\* one turn of the loop: the item is invalid, compact raises ValueError
KItemInvalid ==
    /\ pc = "c_loop"
    /\ cur[2] < Len(cur[1])
    /\ ~validate_key_value(cur[1][cur[2] + 1][1], cur[1][cur[2] + 1][2])
    /\ pc' = "ready"
    /\ result' = Result("compact", "ValueError", None)
    /\ UNCHANGED <<exists, file, synced, index, cur, model, maybe, nops, faults, tmp>>

\* fh.write raises OSError after n characters of the line reached the
\* temporary file
KWriteFail ==
    /\ pc = "c_loop"
    /\ cur[2] < Len(cur[1])
    /\ faults < MaxFaults
    /\ faults' = faults + 1
    /\ \E n \in 0..Len(record_line(cur[1][cur[2] + 1][1], cur[1][cur[2] + 1][2])) :
          tmp' = [tmp EXCEPT !.content =
                     @ \o Take(record_line(cur[1][cur[2] + 1][1],
                                           cur[1][cur[2] + 1][2]), n)]
    /\ pc' = "ready"
    /\ result' = Result("compact", "OSError", None)
    /\ UNCHANGED <<exists, file, synced, index, cur, model, maybe, nops>>

\* after the loop: flush and fsync of the temporary file, which is closed
KFsync ==
    /\ pc = "c_loop"
    /\ cur[2] = Len(cur[1])
    /\ tmp' = compact_fsync(tmp)
    /\ pc' = "c_synced"
    /\ UNCHANGED <<exists, file, synced, index, cur, result, model, maybe, nops, faults>>

\* open, flush, fsync or os.replace raises OSError
KFail ==
    /\ \/ pc = "c_open"
       \/ pc = "c_loop" /\ cur[2] = Len(cur[1])
       \/ pc = "c_synced"
    /\ faults < MaxFaults
    /\ faults' = faults + 1
    /\ pc' = "ready"
    /\ result' = Result("compact", "OSError", None)
    /\ UNCHANGED <<exists, file, synced, index, cur, model, maybe, nops, tmp>>

\* os.replace(tmp_path, self.path): the live path now names the temporary
\* file's content, of which the fsynced part is on stable storage
KReplace ==
    /\ pc = "c_synced"
    /\ exists' = TRUE
    /\ file' = tmp.content
    /\ synced' = tmp.synced
    /\ tmp' = NoFile
    /\ pc' = "c_replaced"
    /\ UNCHANGED <<index, cur, result, model, maybe, nops, faults>>

\* the fsync of the directory (its failure is only logged): compact returns
KDirFsync ==
    /\ pc = "c_replaced"
    /\ pc' = "ready"
    /\ result' = Result("compact", "ok", None)
    /\ UNCHANGED <<exists, file, synced, index, cur, model, maybe, nops, faults, tmp>>

\* the machine dies: of each file the fsynced prefix survives and any part
\* of what was written after it; a rename whose directory was not yet
\* fsynced may be undone
KCrash ==
    /\ pc # "down"
    /\ faults < MaxFaults
    /\ faults' = faults + 1
    /\ \/ \E n \in synced..Len(file) :
             /\ file' = Take(file, n)
             /\ synced' = n
             /\ exists' = exists
       \/ /\ pc = "c_replaced"
          /\ file' = cur[3].content
          /\ synced' = Len(cur[3].content)
          /\ exists' = cur[3].exists
    /\ \E m \in tmp.synced..Len(tmp.content) :
          tmp' = [tmp EXCEPT !.content = Take(@, m), !.synced = m]
    /\ pc' = "down"
    /\ result' = Result("crash", "ok", None)
    /\ UNCHANGED <<index, cur, model, maybe, nops>>

\* AppendOnlyLog(path) after the crash
KRestart ==
    /\ pc = "down"
    /\ pc' = "ready"
    /\ result' = Result("init", "ok", None)
    /\ UNCHANGED <<exists, file, synced, index, cur, model, maybe, nops, faults, tmp>>

NextCompact ==
    \/ \E k \in CrashKeys, v \in CrashValues : KAppend(k, v)
    \/ \E items \in CompactSnapshots : KCompactCall(items)
    \/ KOpenTmp
    \/ KWriteItem
    \/ KItemInvalid
    \/ KWriteFail
    \/ KFsync
    \/ KFail
    \/ KReplace
    \/ KDirFsync
    \/ KCrash
    \/ KRestart

SpecCompact == Init /\ [][NextCompact]_vars

(* -------- SpecRecover: an engine constructed from any log file ------- *)
\* the file ends in a line that was cut before its line feed
WriteTornTail(t) ==
    /\ nops < MaxLines
    /\ ~tail_warning(file)
    /\ nops' = nops + 1
    /\ exists' = TRUE
    /\ file' = file \o t
    /\ result' = Result("write", "torn", None)
    /\ UNCHANGED <<synced, index, pc, cur, model, maybe, faults, tmp>>

\* KVEngine(db_path) on the file
RecoverConstruct ==
    /\ index' = load_from_log(exists, file)
    /\ result' = Result("init", "ok", None)
    /\ UNCHANGED <<exists, file, synced, pc, cur, model, maybe, nops, faults, tmp>>

\* KVEngine(db_path) on the file when the read of line n + 1 fails: replay
\* halts, the constructor returns with the records applied so far
RecoverConstructReadError(n) ==
    /\ exists
    /\ n < Len(read_lines(file))
    /\ index' = apply_all(EmptyTree, replay_read_error(exists, file, n))
    /\ result' = Result("init", "halted", None)
    /\ UNCHANGED <<exists, file, synced, pc, cur, model, maybe, nops, faults, tmp>>

NextRecover ==
    \/ \E k \in ReplayKeys, v \in ReplayValues : WriteRecordLine(k, v)
    \/ \E l \in MalformedLines : WriteMalformedLine(l)
    \/ \E t \in TornTails : WriteTornTail(t)
    \/ RecoverConstruct
    \/ \E n \in 0..MaxLines : RecoverConstructReadError(n)

SpecRecover == Init /\ [][NextRecover]_vars

(* ============================= properties ============================= *)
\* the keys of the history that a set has written
Written(keys) == {k \in keys : model[k] # None}

\* C1 (round trip): when the engine is ready, get(k) is the value of the
\* most recent successful set on k, and None for a key never written.
C1_RoundTrip ==
    pc = "ready" => \A k \in EngineKeys : engine_get(index, k) = model[k]

\* the length of the longest prefix of content that ends in a line feed
TerminatedLen(content) ==
    LET ends == {i \in 1..Len(content) : content[i] = LF}
    IN IF ends = {} THEN 0 ELSE CHOOSE i \in ends : \A j \in ends : j <= i

\* content without a trailing line that has no line feed
TerminatedPrefix(content) == Take(content, TerminatedLen(content))

\* C2 (no acknowledged write is lost): whenever the engine is ready, also
\* after any crash and restart, get(k) of every key with an acknowledged
\* set is the value of the last acknowledged set on k, or of a later set on
\* k that was in flight at a crash.
C2_NoAckedWriteLost ==
    pc = "ready" =>
        \A k \in CrashKeys :
            model[k] # None => engine_get(index, k) \in ({model[k]} \cup maybe[k])

\* C3 (crash tolerance): an engine constructed from the file holds exactly
\* what the fully terminated lines give; an unterminated trailing line
\* contributes nothing.
C3_TrailingLineDropped ==
    (pc = "ready" /\ result.op = "init") =>
        /\ tree_items(index) = tree_items(load_from_log(exists, TerminatedPrefix(file)))
        /\ tree_len(index) = tree_len(load_from_log(exists, TerminatedPrefix(file)))

\* C4 (replay equivalence): a new engine constructed from the log file
\* answers get like the live engine, for every key.
C4_ReplayEquivalence ==
    pc = "ready" =>
        \A k \in EngineKeys :
            engine_get(load_from_log(exists, file), k) = engine_get(index, k)

\* content holds the complete line "SET k v\n", starting at a line start
HasRecord(content, k, v) ==
    \E i \in 1..Len(content) :
        /\ i = 1 \/ content[i - 1] = LF
        /\ i + Len(record_line(k, v)) - 1 <= Len(content)
        /\ SubSeq(content, i, i + Len(record_line(k, v)) - 1) = record_line(k, v)

\* C5 (persist, then apply): in every state, every pair held by the index
\* has a complete SET record for that key and value in the fsynced part of
\* the log file.
C5_IndexedImpliesLogged ==
    \A i \in 1..Len(tree_items(index)) :
        HasRecord(Take(file, synced), tree_items(index)[i][1], tree_items(index)[i][2])

\* a step in which Engine.set ends because append_set raised
AppendFailed ==
    \/ pc = "ready" /\ pc' = "ready" /\ nops' # nops
    \/ pc = "append" /\ pc' = "ready"
    \/ pc = "written" /\ pc' = "ready"

\* C6 (a failed write is not applied): when the append inside Engine.set
\* fails, the call reports the failure and the index is exactly as before.
C6_FailedSetLeavesIndex ==
    [][AppendFailed =>
          /\ index' = index
          /\ result'.op = "set"
          /\ result'.status \in {"ValueError", "OSError"}]_vars

\* C6 is exercised: a set failed at the write while the index held a pair
C6_Witness ==
    /\ result = Result("set", "OSError", None)
    /\ index.size > 0
    /\ file # Take(file, synced)

\* key is empty or holds a whitespace character
BadKey(k) == k = <<>> \/ \E i \in 1..Len(k) : k[i] \in Whitespace

\* C7 (validation before I/O): append_set with an empty key, a key with a
\* whitespace character or a value with a line feed fails with ValueError
\* and leaves the file as it was, not even created.
C7_ValidationBeforeIO ==
    [][\A k \in LogKeys, v \in LogValues :
          (LogAppend(k, v) /\ (BadKey(k) \/ Contains(v, LF))) =>
              /\ result'.status = "ValueError"
              /\ file' = file
              /\ exists' = exists]_vars

\* C8 (size): len(index) is the number of distinct keys ever set; setting a
\* stored key again does not change it.
C8_SizeIsDistinctKeys ==
    tree_len(index) = Cardinality(Written(TreeKeys))

\* s is a sequence of (key, value) pairs with strictly ascending keys
StrictlyAscending(s) ==
    \A i \in 1..(Len(s) - 1) : StrLess(s[i][1], s[i + 1][1])

\* C9 (leaf chain): items() yields strictly ascending keys, and exactly the
\* keys that were set, each with its latest value.
C9_LeafChainOrder ==
    LET it == tree_items(index)
    IN /\ StrictlyAscending(it)
       /\ {it[i] : i \in 1..Len(it)} = {<<k, model[k]>> : k \in Written(TreeKeys)}

RECURSIVE leaf_depths(_, _, _)
\* the depths of the leaves below node n, itself at depth d
leaf_depths(T, n, d) ==
    IF T.nodes[n].leaf THEN {d}
    ELSE UNION {leaf_depths(T, T.nodes[n].children[i], d + 1) :
                    i \in 1..Len(T.nodes[n].children)}

\* C10 (height balance): every leaf is at the same depth from the root.
C10_HeightBalanced ==
    Cardinality(leaf_depths(index, index.root, 0)) = 1

\* C10 is exercised: splits of internal nodes have grown the root twice
C10_Witness ==
    /\ leaf_depths(index, index.root, 0) = {2}
    /\ Len(index.nodes[index.root].children) >= 2

RECURSIVE subtree(_, _)
\* the nodes of the tree below and including node n
subtree(T, n) ==
    IF T.nodes[n].leaf THEN {n}
    ELSE {n} \cup UNION {subtree(T, T.nodes[n].children[i]) :
                            i \in 1..Len(T.nodes[n].children)}

\* the internal nodes of the tree
internal_nodes(T) == {n \in subtree(T, T.root) : ~T.nodes[n].leaf}

\* C11 (children count): after every completed set, every internal node of
\* the tree has exactly one more child than it has separator keys.
C11_ChildrenCount ==
    ~index.raised =>
        \A n \in internal_nodes(index) :
            Len(index.nodes[n].children) = Len(index.nodes[n].keys) + 1

\* C11 is exercised: an internal node below the root, made by the split of
\* an internal node, has taken a further separator from a leaf split
C11_Witness ==
    /\ result.op = "set"
    /\ \E n \in internal_nodes(index) :
          n # index.root /\ Len(index.nodes[n].keys) >= 2

RECURSIVE SortKeys(_)
\* the keys of the set S in ascending order
SortKeys(S) ==
    IF S = {} THEN <<>>
    ELSE LET m == CHOOSE k \in S : \A j \in S : StrLeq(k, j)
         IN <<m>> \o SortKeys(S \ {m})

\* the pairs (key, latest value) of the keys of S, in ascending key order
LatestPairs(S) ==
    SubSeq([i \in 1..Cardinality(S) |-> <<SortKeys(S)[i], model[SortKeys(S)[i]]>>],
           1, Cardinality(S))

\* C12 (ordered range scan): iter_range(start, end) yields exactly the
\* stored (key, latest value) pairs with start <= key < end, each once, in
\* ascending key order; with end unset, every stored pair with key >= start.
C12_OrderedRangeScan ==
    result.op = "range" =>
        result.ret = LatestPairs({k \in Written(ScanKeys) :
                                    /\ StrLeq(cur[1], k)
                                    /\ cur[2] = None \/ StrLess(k, cur[2])})

\* key starts with prefix
StartsWith(key, prefix) ==
    Len(prefix) <= Len(key) /\ Take(key, Len(prefix)) = prefix

\* C13 (prefix scan): iter_prefix(p) yields exactly the stored (key, latest
\* value) pairs whose key starts with p, in ascending key order, whatever
\* characters follow the prefix.
C13_PrefixScan ==
    result.op = "prefix" =>
        result.ret = LatestPairs({k \in Written(ScanKeys) : StartsWith(k, cur[1])})

\* the tree holds exactly the pairs of n distinct keys, set since it was
\* empty: n sets of distinct keys (and overwrites, which change no node)
HoldsDistinct(n) ==
    /\ ~index.raised
    /\ Cardinality(Written(DeepKeys)) = n
    /\ Len(tree_items(index)) = n

\* C14 (split correctness): ORDER + 1 distinct keys set, in any order, into
\* an empty tree of fan-out ORDER have split exactly one leaf: the arena
\* holds the first leaf, its one new sibling and the new root, an internal
\* node with one separator and these two leaves as children.
C14_SplitCorrectness ==
    HoldsDistinct(ORDER + 1) =>
        /\ Len(index.nodes) = 3
        /\ ~index.nodes[index.root].leaf
        /\ Len(index.nodes[index.root].keys) = 1
        /\ Len(index.nodes[index.root].children) = 2
        /\ \A i \in 1..2 : index.nodes[index.nodes[index.root].children[i]].leaf

\* C14 is exercised: the set of the (ORDER + 1)-th distinct key has returned
C14_Witness ==
    /\ result.op = "set"
    /\ HoldsDistinct(ORDER + 1)
    /\ Len(index.nodes[index.root].keys) = 1

\* C15 (tolerant replay): replay skips every line that is no record (fewer
\* than three tokens, a command other than SET, an empty key or a key with
\* whitespace) and yields the record of every well-formed terminated line
\* before and after it, in file order.
C15_TolerantReplay ==
    result.op = "replay" => result.ret = cur

\* C15 is exercised: replay has read a file of a well-formed line, a line
\* that is no record, and a second well-formed line
C15_Witness ==
    /\ result.op = "replay"
    /\ nops = 3
    /\ Len(cur) = 2
    /\ Take(file, Len(record_line(cur[1][1], cur[1][2]))) = record_line(cur[1][1], cur[1][2])
    /\ Drop(file, Len(file) - Len(record_line(cur[2][1], cur[2][2])))
           = record_line(cur[2][1], cur[2][2])

\* C16 (log round trip): starting from no file, every append that passes
\* validation adds exactly its (key, value) pair, unchanged, at the end of
\* what replay yields; so replay yields the appended pairs in append order.
C16_LogRoundTrip ==
    [][\A k \in LogKeys, v \in LogValues :
          (LogAppend(k, v) /\ result'.status = "ok") =>
              replay(exists', file') = Append(replay(exists, file), <<k, v>>)]_vars

RECURSIVE snapshot_lines(_)
\* the lines "SET k v\n" of the pairs of items, one after the other
snapshot_lines(items) ==
    IF items = <<>> THEN <<>>
    ELSE record_line(Head(items)[1], Head(items)[2]) \o snapshot_lines(Tail(items))

\* C17 (atomic compaction): from the call of compact on, through every
\* step, failure and crash, the live file is either what it was at the call
\* or the complete snapshot; and when the snapshot has replaced the live
\* file, all of it is on stable storage (it was fsynced before).
C17_AtomicCompaction ==
    cur # <<>> =>
        /\ \/ exists = cur[3].exists /\ file = cur[3].content
           \/ exists /\ file = snapshot_lines(cur[1])
        /\ pc = "c_replaced" => synced = Len(file) /\ file = snapshot_lines(cur[1])

\* C17 is exercised: a crash right after os.replace left the new snapshot
\* as the live file, in place of an older, different content
C17_Witness ==
    /\ pc = "down"
    /\ cur # <<>>
    /\ cur[1] # <<>>
    /\ cur[3].content # <<>>
    /\ file = snapshot_lines(cur[1])
    /\ file # cur[3].content

\* C18 (compaction preserves state): after the log was compacted with the
\* items of the index as snapshot, a new engine constructed from the file
\* answers get, for every key, as the engine did before the compaction.
C18_CompactionPreservesState ==
    result.op = "compact" =>
        /\ result.status = "ok"
        /\ \A k \in EngineKeys :
               engine_get(load_from_log(exists, file), k) = engine_get(index, k)

\* C19 (read path frame): Engine.get leaves the log file and the index
\* (shape, size, every value) as they were, and a get of the same key right
\* after it returns the same result.
C19_ReadPathFrame ==
    [][\A k \in EngineKeys :
          EngineGet(k) =>
              /\ exists' = exists
              /\ file' = file
              /\ index' = index
              /\ engine_get(index', k) = result'.ret]_vars

\* C19 is exercised: get has returned a value while the log file, replayed,
\* gives another index than the one the engine holds
C19_Witness ==
    /\ result.op = "get"
    /\ result.ret # None
    /\ load_from_log(exists, file) # index

\* the positions of s that hold a line break for the text reader
LineBreaks(s) == {i \in 1..Len(s) : s[i] = LF \/ s[i] = CR}

\* C20 (append-only growth): a successful append keeps the previous content
\* of the file as a prefix and adds exactly one line, "SET key value" with
\* its line break at the end; replay leaves the file as it is, and a
\* second replay with no append in between yields the same sequence.
C20_AppendOnlyGrowth ==
    [][/\ \A k \in LogKeys, v \in LogValues :
             (LogAppend(k, v) /\ result'.status = "ok") =>
                 /\ Len(file') = Len(file) + Len(record_line(k, v))
                 /\ Take(file', Len(file)) = file
                 /\ Drop(file', Len(file)) = record_line(k, v)
                 /\ LineBreaks(Drop(file', Len(file))) = {Len(record_line(k, v))}
       /\ result'.op = "replay" =>
             /\ file' = file
             /\ exists' = exists
             /\ result.op = "replay" => result'.ret = result.ret]_vars

\* the value of the last record of recs for key k
LastValue(recs, k) ==
    LET at == {i \in 1..Len(recs) : recs[i][1] = k}
    IN recs[CHOOSE i \in at : \A j \in at : j <= i][2]

\* the last-write-wins result of applying recs in order: its pairs, in
\* ascending key order
LastWriteWins(recs) ==
    LET K == {recs[i][1] : i \in 1..Len(recs)}
    IN SubSeq([i \in 1..Cardinality(K) |->
                  <<SortKeys(K)[i], LastValue(recs, SortKeys(K)[i])>>],
              1, Cardinality(K))

\* C21 (consistent recovery): an engine constructed from any log file, also
\* when a read error halts the replay, holds exactly the last-write-wins
\* result of the well-formed terminated records of some prefix of the file.
C21_ConsistentRecovery ==
    result.op = "init" =>
        /\ ~index.raised
        /\ \E j \in 0..Len(cur) : tree_items(index) = LastWriteWins(Take(cur, j))

\* the keys stored in the leaves of the tree
stored_keys(T) ==
    UNION {{T.nodes[n].keys[i] : i \in 1..Len(T.nodes[n].keys)} :
               n \in {m \in subtree(T, T.root) : T.nodes[m].leaf}}

\* C22 (descent finds the owner leaf): for every key stored in the tree,
\* _find_leaf(key) is a leaf whose keys hold that key, also when the key
\* equals a separator on the path.
C22_DescentFindsOwner ==
    ~index.raised =>
        \A k \in stored_keys(index) :
            \E i \in 1..Len(index.nodes[find_leaf(index, k)].keys) :
                index.nodes[find_leaf(index, k)].keys[i] = k

\* C23 (set touches only its own key): set(k, v) leaves get(k2) as it was
\* for every other key k2, also when the set splits nodes and promotes
\* separators.
C23_SetTouchesOwnKey ==
    [][\A k \in TreeKeys, v \in TreeValues :
          TreeSet(k, v) =>
              \A k2 \in TreeKeys \ {k} : tree_get(index', k2) = tree_get(index, k2)]_vars

RECURSIVE keys_under(_, _)
\* the keys stored in the leaves below and including node n
keys_under(T, n) ==
    IF T.nodes[n].leaf THEN {T.nodes[n].keys[i] : i \in 1..Len(T.nodes[n].keys)}
    ELSE UNION {keys_under(T, T.nodes[n].children[i]) :
                    i \in 1..Len(T.nodes[n].children)}

\* keys is strictly ascending: sorted, no key twice
SortedUnique(keys) == \A i \in 1..(Len(keys) - 1) : StrLess(keys[i], keys[i + 1])

\* C24 (node order and separator bounds): after any sequence of sets the
\* keys of every node are strictly sorted and unique, and every separator
\* keys[i] of an internal node lies between the largest key stored under
\* child i and the smallest key stored under child i + 1 (both inclusive).
C24_NodeOrderAndBounds ==
    ~index.raised =>
        \A n \in subtree(index, index.root) :
            /\ SortedUnique(index.nodes[n].keys)
            /\ ~index.nodes[n].leaf =>
                  \A i \in 1..Len(index.nodes[n].keys) :
                      /\ \A x \in keys_under(index, index.nodes[n].children[i]) :
                             StrLeq(x, index.nodes[n].keys[i])
                      /\ \A x \in keys_under(index, index.nodes[n].children[i + 1]) :
                             StrLeq(index.nodes[n].keys[i], x)

\* C24 is exercised: in a tree of three levels a separator of a node below
\* the root is stored on both of its sides, as the largest key of its left
\* child and the smallest of its right child
C24_Witness ==
    /\ result.op = "set"
    /\ \E n \in internal_nodes(index) :
          /\ n # index.root
          /\ \E i \in 1..Len(index.nodes[n].keys) :
                /\ index.nodes[n].keys[i] \in keys_under(index, index.nodes[n].children[i])
                /\ index.nodes[n].keys[i] \in keys_under(index, index.nodes[n].children[i + 1])

\* C25 (leaf split shape): a set that overflows a leaf with n keys leaves the
\* right sibling with the ceiling of n/2 keys and the left leaf with the rest,
\* keys and values aligned and together the overflowing leaf's, the first key
\* of the right sibling as a separator of an internal node, left.next = right
\* and right.next = the old left.next.
C25_LeafSplitShape ==
    [][\A k \in DeepKeys :
          (TreeSet(k, Digit(1)) /\ Len(index'.nodes) > Len(index.nodes)) =>
              LET L == find_leaf(index, k)
                  i == bisect_left(index.nodes[L].keys, k)
                  n == Len(index.nodes[L].keys) + 1
                  R == index'.nodes[L].next
                  left == index'.nodes[L]
                  right == index'.nodes[R]
              IN /\ R # 0
                 /\ right.leaf
                 /\ Len(right.keys) = (n + 1) \div 2
                 /\ Len(left.keys) = n - (n + 1) \div 2
                 /\ left.keys \o right.keys = SeqInsert(index.nodes[L].keys, i, k)
                 /\ left.values \o right.values =
                        SeqInsert(index.nodes[L].values, i, Digit(1))
                 /\ \E p \in internal_nodes(index') :
                        \E j \in 1..Len(index'.nodes[p].keys) :
                            index'.nodes[p].keys[j] = right.keys[1]
                 /\ right.next = index.nodes[L].next
      ]_vars

\* the internal nodes that a step has split: in the tree before, replaced by
\* their halves after
split_nodes == internal_nodes(index) \ internal_nodes(index')

\* where node n hangs after its split: the parent it had and its 1-based
\* position there, or the new root and position 1 when n was the root
hung_under(n) ==
    IF index.nodes[n].parent = 0
    THEN <<index'.root, 1>>
    ELSE <<index.nodes[n].parent,
           find_child_index(index, index.nodes[n].parent, n) + 1>>

\* C26 (internal split shape): a set that overflows an internal node splits
\* it at the middle index; the middle key goes to the parent and is in neither
\* half, each half has one more child than keys, the children of each half
\* point back to it, and every separator promoted by the set, a leaf's
\* included, sits in the parent right after the child that split, between
\* the two halves.
C26_InternalSplitShape ==
    [][\A k \in DeepKeys :
          (TreeSet(k, Digit(1)) /\ ~index'.raised) =>
              /\ \A n \in split_nodes :
                    LET full == index'.nodes[n]
                        mid == Len(full.keys) \div 2
                        p == index'.nodes[hung_under(n)[1]]
                        j == hung_under(n)[2]
                        l == p.children[j]
                        r == p.children[j + 1]
                    IN /\ Len(full.keys) = MAX_KEYS(index) + 1
                       /\ p.keys[j] = full.keys[mid + 1]
                       /\ l # n /\ r # n /\ l # r
                       /\ ~index'.nodes[l].leaf /\ ~index'.nodes[r].leaf
                       /\ index'.nodes[l].keys = Take(full.keys, mid)
                       /\ index'.nodes[r].keys = Drop(full.keys, mid + 1)
                       /\ index'.nodes[l].children = Take(full.children, mid + 1)
                       /\ index'.nodes[r].children = Drop(full.children, mid + 1)
                       /\ \A h \in {l, r} :
                             /\ Len(index'.nodes[h].children) =
                                    Len(index'.nodes[h].keys) + 1
                             /\ \A c \in 1..Len(index'.nodes[h].children) :
                                    index'.nodes[index'.nodes[h].children[c]].parent = h
              /\ Len(index'.nodes) > Len(index.nodes) =>
                    LET L == find_leaf(index, k)
                        R == index'.nodes[L].next
                        p == index'.nodes[hung_under(L)[1]]
                        j == hung_under(L)[2]
                    IN /\ p.children[j] = L
                       /\ p.children[j + 1] = R
                       /\ p.keys[j] = index'.nodes[R].keys[1]
      ]_vars

\* C26 is exercised: an internal node that overflowed has been split, and its
\* two halves hang in the tree in its place
C26_Witness ==
    /\ ~index.raised
    /\ \E n \in 1..Len(index.nodes) :
          /\ ~index.nodes[n].leaf
          /\ n \notin subtree(index, index.root)
          /\ Len(index.nodes[n].keys) > MAX_KEYS(index)

\* C27 (node capacity and fill): after every completed set on a tree of
\* fan-out F, every node holds at most F - 1 keys and an internal node at most
\* F children; every leaf but the root holds at least F \div 2 keys and every
\* internal node but the root at least (F - 1) \div 2 keys.
C27_CapacityAndFill ==
    ~index.raised =>
        \A n \in subtree(index, index.root) :
            /\ Len(index.nodes[n].keys) <= index.order - 1
            /\ ~index.nodes[n].leaf => Len(index.nodes[n].children) <= index.order
            /\ (n # index.root /\ index.nodes[n].leaf) =>
                   Len(index.nodes[n].keys) >= index.order \div 2
            /\ (n # index.root /\ ~index.nodes[n].leaf) =>
                   Len(index.nodes[n].keys) >= (index.order - 1) \div 2

\* C27 is exercised: a set has returned on a tree of height three in which
\* an internal node below the root holds the fewest keys allowed, one leaf
\* holds the fewest and another the most
C27_Witness ==
    /\ result.op = "set"
    /\ ~index.raised
    /\ \E n \in internal_nodes(index) :
          /\ n # index.root
          /\ Len(index.nodes[n].keys) = (index.order - 1) \div 2
    /\ \E n \in subtree(index, index.root) :
          /\ index.nodes[n].leaf
          /\ Len(index.nodes[n].keys) = index.order \div 2
    /\ \E n \in subtree(index, index.root) :
          /\ index.nodes[n].leaf
          /\ Len(index.nodes[n].keys) = index.order - 1

====
